---- MODULE Spec2Model ----
(***************************************************************************)
(* A model of sposit.js (Sposit v0.2): the column-count computation of     *)
(* dynamicColumns / possibleColumns, the class tag possibleColumns writes, *)
(* the delayed dispersion correction (setTimeout, 200 ms) and the          *)
(* window.onresize wiring of initializeEvents.                             *)
(*                                                                         *)
(* The DOM is the environment: the wrappers matched by the wrapper         *)
(* selector, each with a number of container items and an offsetWidth, and *)
(* the offsets the delayed correction measures.  The inline column-count   *)
(* style of a wrapper is modelled as the last value the code assigned to   *)
(* it.  The engine's elements have a classList or, on an old engine, none. *)
(***************************************************************************)
EXTENDS Integers, Sequences, FiniteSets, TLC

\* ------------------------------------------------------------------ bounds
MaxCalls == 3         \* calls of dynamicColumns in one behaviour
TickMs == 100         \* granularity of the passage of time, in ms

\* ------------------------------------------------------- program constants
Delay == 200                  \* setTimeout(..., 200)
DefaultMinColumnWidth == 240  \* defaults.minColumnWidth
DefaultColumnOffset == 10     \* defaults.columnOffset

\* The string 'dynamic' (defaults.maxColumnNum), encoded as a number that no
\* column count takes.
Dynamic == -1
\* The inline column-count style before the code has assigned it.
Unset == -2
\* NaN, and an option value that Number() turns into NaN.  No comparison with
\* NaN is true; arithmetic on NaN gives NaN.
NaN == -3

\* --------------------------------------------------- input sets (environment)
Widths == {0, 240, 720}
MinColumnWidths == {DefaultMinColumnWidth}
ColumnOffsets == {0, DefaultColumnOffset}
MaxColumnChoices == {Dynamic, 2}
Flags == {"true", "false"}
Lefts == {0, 480}
ItemWidths == {300}
\* The pages: the container items of each element the wrapper selector
\* matches, in document order.
Pages == {<< >>, <<0>>, <<1>>, <<3>>, <<1, 3>>, <<3, 1>>}
\* The pages shown by an engine whose elements have no classList.  A call
\* tags the first matched wrapper only, so these have one wrapper.
PagesWithoutClassList == {<<1>>, <<3>>}

\* The widths the wrappers of a page have together: any width of a single
\* wrapper; two wrappers both wide, or one of them narrow.
Layouts ==
  {<< >>} \cup {<<x>> : x \in Widths}
    \cup {<<720, 720>>, <<240, 720>>, <<720, 240>>}

\* The maxColumnNum arguments the page passes when it calls dynamicColumns
\* itself.
DirectArguments == {Dynamic, 3}

\* Option values with one that is not numeric, such as 'wide'.
MalformedWidths == {NaN, DefaultMinColumnWidth}

\* The options object of an instance (defaults extended by the user's options).
\* respondOnResize, which the code never reads, is 'false' with the other
\* options at their defaults only.
OptionChoices ==
  [minColumnWidth : MinColumnWidths,
   columnOffset : ColumnOffsets,
   maxColumnNum : MaxColumnChoices,
   respondOnResize : {"true"},
   disperseXEvenly : Flags]
  \cup
  [minColumnWidth : {DefaultMinColumnWidth},
   columnOffset : {DefaultColumnOffset},
   maxColumnNum : {Dynamic},
   respondOnResize : {"false"},
   disperseXEvenly : {"true"}]

\* Options whose minColumnWidth may be malformed.
MalformedOptionChoices ==
  [minColumnWidth : MalformedWidths,
   columnOffset : {DefaultColumnOffset},
   maxColumnNum : MaxColumnChoices,
   respondOnResize : {"true"},
   disperseXEvenly : Flags]

\* The options of two instances on one page, which differ in maxColumnNum.
PairedOptionChoices ==
  [minColumnWidth : {DefaultMinColumnWidth},
   columnOffset : {DefaultColumnOffset},
   maxColumnNum : MaxColumnChoices,
   respondOnResize : {"true"},
   disperseXEvenly : {"true"}]

VARIABLES
  hasClassList,  \* whether the engine's elements have a classList
  itemCount,     \* itemCount[w]: container items inside the w-th matched wrapper
  offsetWidth,   \* offsetWidth[w]: current width of wrapper w
  styleCount,    \* styleCount[w]: el.style[columnCountProp], Unset before the first write
  classTags,     \* classTags[w]: the numbers of the sposit-colmn-num- classes of w, in order
  instances,     \* instances[i]: this.options of the i-th constructed Sposit
  given,         \* given[i]: the options the i-th Sposit was constructed with
  onresize,      \* window.onresize: 0 (null) or the instance its closure holds
  timers,        \* pending setTimeout callbacks, in the order they were scheduled
  calls,         \* number of dynamicColumns calls so far
  written,       \* written[w]: the count the latest dynamicColumns call assigned to w
  corrections,   \* corrections[w]: the corrections that wrote w since the latest
                 \* dynamicColumns call, each named by the step that scheduled it
  latest,        \* the latest dynamicColumns call: the step that made it and its
                 \* maxColumnNum argument
  last           \* what the latest step did

vars == <<hasClassList, itemCount, offsetWidth, styleCount, classTags, instances, given,
          onresize, timers, calls, written, corrections, latest, last>>

\* The elements document.querySelectorAll(wrapperElement + ' ') matches.
nWrappers == Len(itemCount)
Wrappers == 1..nWrappers

Min(a, b) == IF a < b THEN a ELSE b

\* ------------------------------------------------------------ class tagging
\* removePrefixClasses(el, 'sposit-colmn-num-'), lines 238-247: when the
\* element has a classList every class containing the prefix is removed;
\* when it has none nothing is.
removePrefixClasses(tags) == IF hasClassList THEN << >> ELSE tags

\* Lines 168-173: classList.add(columnClass) adds the class unless present;
\* without a classList the class is appended to className.
AddColumnClass(tags, n) ==
  IF hasClassList
    THEN IF \E i \in 1..Len(tags) : tags[i] = n THEN tags ELSE Append(tags, n)
    ELSE Append(tags, n)

\* ----------------------------------------------------------- possibleColumns
\* A division with numerator and denominator exchanged.
FloorColumnsInverted(width, opts) ==
  (opts.minColumnWidth + opts.columnOffset) \div (width + 1)

\* Math.floor(offsetWidth / (Number(minColumnWidth) + Number(columnOffset)))
FloorColumns(width, opts) ==
  IF opts.minColumnWidth = NaN \/ opts.columnOffset = NaN
    THEN NaN
    ELSE width \div (opts.minColumnWidth + opts.columnOffset)

\* currentColumnNumber after the clamp to options.maxColumnNum (lines 160-164).
possibleColumnsNumber(width, opts) ==
  LET cur == FloorColumns(width, opts)
  IN  IF opts.maxColumnNum # Dynamic /\ cur # NaN /\ cur > opts.maxColumnNum
        THEN opts.maxColumnNum
        ELSE cur

\* The class list after possibleColumns (lines 165-173).
possibleColumnsTags(tags, width, opts) ==
  AddColumnClass(removePrefixClasses(tags), possibleColumnsNumber(width, opts))

\* The options after possibleColumns: line 174 assigns 'true' to disperseXEvenly.
possibleColumnsOptions(opts) == [opts EXCEPT !.disperseXEvenly = "true"]

\* ----------------------------------------------------------- dynamicColumns
\* A clamp that is left out.
ClampToItemsOmitted(m, items) == m

\* Lines 119-121: never more columns than items.
ClampToItems(m, items) == IF m # NaN /\ items < m THEN items ELSE m

\* Line 128: whether the delayed correction is scheduled.
DisperseEnabled(opts) == opts.disperseXEvenly = "true"

\* One iteration of the forEach (lines 114-146) for wrapper w, whose
\* offsetWidth is widths[w].  acc carries the variable maxColumnNum (m), the
\* options, the styles, the class tags and the wrappers a callback was
\* scheduled for.
ForEachStep(acc, w, widths) ==
  LET isDyn == acc.m = Dynamic
      m1 == IF isDyn THEN possibleColumnsNumber(widths[w], acc.opts) ELSE acc.m
      tags1 == IF isDyn THEN possibleColumnsTags(acc.tags[w], widths[w], acc.opts)
                        ELSE acc.tags[w]
      opts1 == IF isDyn THEN possibleColumnsOptions(acc.opts) ELSE acc.opts
      m2 == ClampToItems(m1, itemCount[w])
  IN  [m |-> m2,
       opts |-> opts1,
       style |-> [acc.style EXCEPT ![w] = m2],
       tags |-> [acc.tags EXCEPT ![w] = tags1],
       sched |-> IF DisperseEnabled(opts1) THEN Append(acc.sched, w) ELSE acc.sched]

RECURSIVE ForEachFrom(_, _, _)
ForEachFrom(acc, w, widths) ==
  IF w > nWrappers THEN acc
                   ELSE ForEachFrom(ForEachStep(acc, w, widths), w + 1, widths)

\* A call that touches the options before it iterates.
dynamicColumnsEager(opts, maxColumnNum, widths) ==
  ForEachFrom([m |-> maxColumnNum, opts |-> possibleColumnsOptions(opts),
               style |-> styleCount, tags |-> classTags, sched |-> << >>],
              1, widths)

\* dynamicColumns(wrapperElement, maxColumnNum) of an instance with options
\* opts, over the wrappers in document order.
dynamicColumns(opts, maxColumnNum, widths) ==
  ForEachFrom([m |-> maxColumnNum, opts |-> opts, style |-> styleCount,
               tags |-> classTags, sched |-> << >>], 1, widths)

\* The callbacks one call schedules (lines 129-143): each holds its wrapper
\* and the call's one variable maxColumnNum, which has its final value when a
\* callback runs.  Kept for the properties: c (the count the call assigned to
\* the wrapper), ev and by (the call and the step that made it), bound (the
\* finite maximum in force in the call, or Dynamic) and age (ms since the call).
NewTimers(res, ev, by, bound) ==
  [k \in 1..Len(res.sched) |->
     [w |-> res.sched[k], m |-> res.m, c |-> res.style[res.sched[k]],
      ev |-> ev, by |-> by, bound |-> bound, age |-> 0]]

\* The record of a step that did nothing.  Of a dynamicColumns call it keeps
\* rel (how the widths it read compare with those of the call before),
\* before (the counts the call before wrote) and tagsBefore; of a callback,
\* before and tagsBefore (the counts and tags it found) and short (it measured
\* a space smaller than the last item's width).
NoStep == [op |-> "init", inst |-> 0, param |-> Dynamic, bound |-> Dynamic,
           ran |-> FALSE, sched |-> 0, pend |-> 0, w |-> 0, m |-> 0, c |-> 0,
           ev |-> 0, by |-> "init", age |-> 0, cond |-> FALSE,
           applied |-> FALSE, threw |-> FALSE, short |-> FALSE,
           rel |-> "none", before |-> << >>, tagsBefore |-> << >>]

\* How the widths a call reads compare with the widths of the call before.
\* The calls are comparable when they pass the same maxColumnNum.
WidthRelation(old, new) ==
  IF calls = 0 THEN "none"
  ELSE IF new = old THEN "same"
  ELSE IF \A w \in Wrappers : old[w] <= new[w] THEN "wider"
  ELSE "other"

\* The maximum in force in a call: its argument, or, when that is 'dynamic',
\* the options' maxColumnNum that possibleColumns clamps to.
CallBound(maxColumnNum, opts) ==
  IF maxColumnNum # Dynamic THEN maxColumnNum ELSE opts.maxColumnNum

\* The effect of one dynamicColumns call of instance i on the state.
RunDynamicColumns(i, opts, maxColumnNum, widths, op) ==
  LET res == dynamicColumns(opts, maxColumnNum, widths)
      n == IF i > Len(instances) THEN i ELSE Len(instances)
  IN  /\ styleCount' = res.style
      /\ classTags' = res.tags
      /\ instances' = [k \in 1..n |-> IF k = i THEN res.opts ELSE instances[k]]
      /\ timers' = timers \o NewTimers(res, calls + 1, op,
                                        CallBound(maxColumnNum, opts))
      /\ calls' = calls + 1
      /\ written' = res.style
      /\ latest' = [op |-> op, param |-> maxColumnNum]
      /\ corrections' = [w \in Wrappers |-> << >>]
      /\ last' = [NoStep EXCEPT !.op = op, !.inst = i, !.param = maxColumnNum,
                                !.bound = CallBound(maxColumnNum, opts),
                                !.ran = TRUE, !.sched = Len(res.sched),
                                !.pend = Len(timers), !.ev = calls + 1,
                                !.rel = IF calls > 0 /\ latest.param # maxColumnNum
                                          THEN "other"
                                          ELSE WidthRelation(offsetWidth, widths),
                                !.before = written, !.tagsBefore = classTags]

\* --------------------------------------------------- the delayed correction
\* A callback that runs without waiting.
TimerDueAtOnce(t) == TRUE

\* setTimeout(..., 200): the callback runs once the delay has passed.
TimerDue(t) == t.age >= Delay

\* Lines 132-135: containers[maxColumnNum - 1] is undefined when the index is
\* outside the items, and reading its offsetLeft throws a TypeError.
CorrectionThrows(t) ==
  t.m = NaN \/ t.m - 1 < 0 \/ t.m - 1 >= itemCount[t.w]

\* A condition that one remaining space satisfies.
SpaceConditionEither(width, lastContainerLeft, lastColumnLeft, lastContainerWidth) ==
  \/ width - lastContainerLeft >= lastContainerWidth
  \/ width - lastColumnLeft >= lastContainerWidth

\* Lines 138-140: both remaining spaces are at least the last item's width.
SpaceCondition(width, lastContainerLeft, lastColumnLeft, lastContainerWidth) ==
  /\ width - lastContainerLeft >= lastContainerWidth
  /\ width - lastColumnLeft >= lastContainerWidth

\* A correction that decrements the count it finds.
CorrectedCountRelative(t, current) == current - 1

\* Line 141: the count the correction assigns, maxColumnNum - 1, whatever the
\* wrapper's current count is.
CorrectedCount(t, current) == t.m - 1

\* ------------------------------------------------------------------ actions
\* An initialization that leaves a handler already set in place.
initializeEventsKeepsFirst(current, i) == IF current = 0 THEN i ELSE current

\* initializeEvents(that), lines 187-192: window.onresize is assigned a closure
\* over the instance, whatever handler was there.
initializeEvents(current, i) == i

Init ==
  /\ hasClassList \in BOOLEAN
  /\ itemCount \in IF hasClassList THEN Pages ELSE PagesWithoutClassList
  /\ offsetWidth \in {l \in Layouts : Len(l) = Len(itemCount)}
  /\ styleCount = [w \in 1..Len(itemCount) |-> Unset]
  /\ classTags = [w \in 1..Len(itemCount) |-> << >>]
  /\ instances = << >>
  /\ given = << >>
  /\ onresize = 0
  /\ timers = << >>
  /\ calls = 0
  /\ latest = [op |-> "init", param |-> Dynamic]
  /\ written = [w \in 1..Len(itemCount) |-> Unset]
  /\ corrections = [w \in 1..Len(itemCount) |-> << >>]
  /\ last = NoStep

\* new Sposit(options): lines 40-68, then initializeEvents (lines 187-192),
\* which sets window.onresize whatever respondOnResize is.  The page
\* constructs one Sposit.
Construct(opts) ==
  /\ instances = << >>
  /\ calls < MaxCalls
  /\ given' = Append(given, opts)
  /\ RunDynamicColumns(Len(instances) + 1, opts, opts.maxColumnNum, offsetWidth,
                       "construct")
  /\ onresize' = initializeEvents(onresize, Len(instances) + 1)
  /\ UNCHANGED <<hasClassList, itemCount, offsetWidth>>

\* A second new Sposit(options) on the same page.
ConstructSecond(opts) ==
  /\ Len(instances) = 1
  /\ calls < MaxCalls
  /\ given' = Append(given, opts)
  /\ RunDynamicColumns(Len(instances) + 1, opts, opts.maxColumnNum, offsetWidth,
                       "construct")
  /\ onresize' = initializeEvents(onresize, Len(instances) + 1)
  /\ UNCHANGED <<hasClassList, itemCount, offsetWidth>>

\* The window is resized: the wrappers take new widths and window.onresize
\* (lines 189-191) calls that.dynamicColumns(that.options.wrapperElement,
\* that.options.maxColumnNum).
Resize(widths) ==
  /\ calls < MaxCalls
  /\ onresize # 0
  /\ offsetWidth' = widths
  /\ RunDynamicColumns(onresize, instances[onresize],
                       instances[onresize].maxColumnNum, widths, "resize")
  /\ UNCHANGED <<hasClassList, itemCount, onresize, given>>

\* The page calls the public dynamicColumns(wrapperElement, maxColumnNum) of
\* instance i itself (lines 109-147), with an argument of its choice.
DirectCall(i, maxColumnNum) ==
  /\ i \in 1..Len(instances)
  /\ calls < MaxCalls
  /\ RunDynamicColumns(i, instances[i], maxColumnNum, offsetWidth, "direct")
  /\ UNCHANGED <<hasClassList, itemCount, offsetWidth, onresize, given>>

\* TickMs milliseconds pass.
Tick ==
  /\ \E k \in 1..Len(timers) : ~TimerDue(timers[k])
  /\ timers' = [k \in 1..Len(timers) |->
                  [timers[k] EXCEPT !.age = Min(timers[k].age + TickMs, Delay)]]
  /\ last' = [NoStep EXCEPT !.op = "tick"]
  /\ UNCHANGED <<hasClassList, itemCount, offsetWidth, styleCount, classTags,
                 instances, given, onresize, calls, written, corrections,
                 latest>>

\* The oldest pending callback runs (lines 130-142) and measures the layout:
\* the offsetLeft of the last item and of the item at index maxColumnNum - 1
\* (one element when the indices agree), and the last item's offsetWidth.
Fire(lastContainerLeft, lastColumnLeft, lastContainerWidth) ==
  /\ timers # << >>
  /\ TimerDue(Head(timers))
  /\ LET t == Head(timers)
         threw == CorrectionThrows(t)
         cond == /\ ~threw
                 /\ SpaceCondition(offsetWidth[t.w], lastContainerLeft,
                                   lastColumnLeft, lastContainerWidth)
         short == /\ ~threw
                  /\ \/ offsetWidth[t.w] - lastContainerLeft < lastContainerWidth
                     \/ offsetWidth[t.w] - lastColumnLeft < lastContainerWidth
     IN  /\ (~threw /\ t.m = itemCount[t.w]) => lastColumnLeft = lastContainerLeft
         /\ timers' = Tail(timers)
         /\ styleCount' = IF cond
                            THEN [styleCount EXCEPT
                                    ![t.w] = CorrectedCount(t, styleCount[t.w])]
                            ELSE styleCount
         /\ corrections' = IF cond
                             THEN [corrections EXCEPT ![t.w] = Append(@, t.by)]
                             ELSE corrections
         /\ last' = [NoStep EXCEPT !.op = "fire", !.w = t.w, !.m = t.m, !.c = t.c,
                                   !.ev = t.ev, !.by = t.by, !.bound = t.bound,
                                   !.age = t.age, !.cond = cond, !.applied = cond,
                                   !.threw = threw, !.pend = Len(timers),
                                   !.short = short, !.before = styleCount,
                                   !.tagsBefore = classTags]
  /\ UNCHANGED <<hasClassList, itemCount, offsetWidth, classTags, instances, given,
                 onresize, calls, written, latest>>

\* ------------------------------------------------------------------ claims
\* The column count of the contract: min(floor(width / (minColumnWidth +
\* columnOffset)), itemCount), clamped to maxColumns when that is finite.
ContractCount(width, items, opts, maxColumns) ==
  LET raw == Min(width \div (opts.minColumnWidth + opts.columnOffset), items)
  IN  IF maxColumns # Dynamic /\ raw > maxColumns THEN maxColumns ELSE raw

\* C1: the column count a recomputation writes to a wrapper equals
\* min(floor(wrapperWidth / (minColumnWidth + columnOffset)), itemCount),
\* clamped to maxColumns when maxColumns is finite.
C1_WrittenCountIsContractCount ==
  last.ran =>
    \A w \in Wrappers :
      styleCount[w] = ContractCount(offsetWidth[w], itemCount[w],
                                    instances[last.inst], last.bound)

\* C2: when the delayed correction scheduled by a resize event fires for a
\* wrapper whose count that event set to c, and both spaces are at least the
\* last item's width, the wrapper's count becomes exactly c - 1.
C2_CorrectionWritesOneBelow ==
  (last.op = "fire" /\ last.by = "resize" /\ last.cond)
    => styleCount[last.w] = last.c - 1

\* C3 as stated: when the corrections of two overlapping resize events have
\* both applied their decrement to a wrapper, its count is two below the count
\* the latest recomputation computed for it.
C3_TwoDecrementsLeaveTwoBelow ==
  \A w \in Wrappers :
    corrections[w] = <<"resize", "resize">> => styleCount[w] = written[w] - 2

\* C3 amended: a recomputation cancels no pending correction (the callbacks it
\* finds pending stay pending, its own are added), and when two corrections
\* have both written a wrapper since the latest recomputation the count is the
\* later correction's maxColumnNum - 1: the decrements do not accumulate.
C3_CorrectionsOverwriteNotAccumulate ==
  /\ last.ran => Len(timers) = last.pend + last.sched
  /\ (last.op = "fire" /\ last.applied /\ Len(corrections[last.w]) >= 2)
       => styleCount[last.w] = last.m - 1

\* Two corrections scheduled by overlapping resize events have both written
\* one wrapper.
C3_Witness ==
  /\ last.op = "fire"
  /\ last.applied
  /\ corrections[last.w] = <<"resize", "resize">>

\* C4: a correction measures a wrapper only after the recomputation that
\* scheduled it has written the wrapper's count and the delay has passed since.
C4_MeasuresAfterWriteAndDelay ==
  last.op = "fire" =>
    /\ last.age >= Delay
    /\ last.ev <= calls
    /\ written[last.w] # Unset

\* A correction scheduled by a resize event has measured its wrapper.
C4_Witness ==
  /\ last.op = "fire"
  /\ last.by = "resize"
  /\ ~last.threw

\* C5: after a recomputation, and after a correction that follows it, the
\* count of a wrapper is at most its number of items and at most maxColumns
\* when that is finite.
C5_CountWithinItemsAndMax ==
  /\ \A w \in Wrappers : styleCount[w] <= itemCount[w]
  /\ last.ran =>
       \A w \in Wrappers : last.bound # Dynamic => styleCount[w] <= last.bound
  /\ (last.op = "fire" /\ last.applied /\ last.bound # Dynamic)
       => styleCount[last.w] <= last.bound

\* A recomputation has clamped a wrapper with room for more columns than it
\* has items to its number of items.
C5_Witness ==
  /\ last.ran
  /\ \E w \in Wrappers :
       /\ FloorColumns(offsetWidth[w], instances[last.inst]) > itemCount[w]
       /\ styleCount[w] = itemCount[w]
       /\ itemCount[w] > 0

\* C6: the computed count is 0 whenever the wrapper is narrower than one
\* column unit or has no items, whatever maxColumns is.
C6_ZeroWithoutRoomOrItems ==
  last.ran =>
    \A w \in Wrappers :
      (FloorColumns(offsetWidth[w], instances[last.inst]) = 0 \/ itemCount[w] = 0)
        => styleCount[w] = 0

\* C7: for a wrapper whose count is 0, the delayed correction raises no error
\* and the count stays 0.
C7_NoErrorAtZeroColumns ==
  (last.op = "fire" /\ last.c = 0) => (~last.threw /\ styleCount[last.w] = 0)

\* C8: with disperseEvenly false, a recomputation schedules no correction.
C8_NoCorrectionWhenDisabled ==
  (last.ran /\ given[last.inst].disperseXEvenly = "false") => last.sched = 0

\* C9: the recomputation is wired to the resize event only when
\* respondOnResize is true; with respondOnResize false a resize event runs no
\* recomputation.
C9_ResizeWiredOnlyWhenResponding ==
  /\ onresize # 0 => given[onresize].respondOnResize = "true"
  /\ (last.op = "resize" /\ last.ran)
       => given[last.inst].respondOnResize = "true"

\* C10: after a recomputation, the number in a wrapper's column-count class
\* tag is the count the recomputation wrote to its style.
C10_TagEqualsWrittenCount ==
  last.ran => \A w \in Wrappers : classTags[w] = <<styleCount[w]>>

\* C11: a wrapper never carries more than one class tag of the column-count
\* family, and a recomputation that reads the same widths and is passed the
\* same maxColumnNum as the one before it writes the same counts and leaves
\* the same tags.
C11_SingleTagAndIdempotent ==
  /\ \A w \in Wrappers : Len(classTags[w]) <= 1
  /\ (last.ran /\ last.rel = "same")
       => (written = last.before /\ classTags = last.tagsBefore)

\* The count a call with argument maxColumns computes for wrapper w from that
\* wrapper's own width and items alone.
OwnCount(w, opts, maxColumns) ==
  LET fits == IF maxColumns = Dynamic
                THEN possibleColumnsNumber(offsetWidth[w], opts)
                ELSE maxColumns
  IN  IF itemCount[w] < fits THEN itemCount[w] ELSE fits

\* C12: a recomputation sets on each matched wrapper the count computed from
\* that wrapper's own width and item count, and the delayed correction of a
\* wrapper decrements from that count, whatever the other wrappers are.
C12_EachWrapperOwnCount ==
  /\ last.ran =>
       \A w \in Wrappers :
         styleCount[w] = OwnCount(w, instances[last.inst], last.param)
  /\ (last.op = "fire" /\ ~last.threw) => last.m = last.c

\* C13: when minColumnWidth or columnOffset is not numeric, so that the
\* division yields NaN, the count computed and applied to the wrapper is 0
\* and no error is raised.
C13_MalformedGivesZeroNoError ==
  /\ (last.ran /\ last.param = Dynamic
        /\ FloorColumns(0, instances[last.inst]) = NaN)
       => \A w \in Wrappers : styleCount[w] = 0
  /\ (last.op = "fire" /\ last.m = NaN) => ~last.threw

\* C14: a layout pass never modifies the configuration: every option has the
\* value it was constructed with after any sequence of recomputations and
\* corrections.
C14_OptionsNeverModified ==
  \A i \in 1..Len(instances) : instances[i] = given[i]

\* C15: with the options, the maxColumnNum passed and the items fixed, the
\* computed count is non-decreasing in the wrapper width: a recomputation that
\* reads widths at least those of the recomputation before it writes counts
\* at least as large.
C15_CountMonotoneInWidth ==
  (last.ran /\ last.rel \in {"same", "wider"})
    => \A w \in Wrappers : last.before[w] <= written[w]

\* A resize event has widened a wrapper and its count has grown.
C15_Witness ==
  /\ last.op = "resize"
  /\ last.rel = "wider"
  /\ \E w \in Wrappers : last.before[w] < written[w]

\* C16: when no element matches the wrapper selector, a recomputation performs
\* zero iterations: no count and no class tag is written, no option is
\* touched, no correction is scheduled, and no error is raised.
C16_NoMatchNoIteration ==
  (nWrappers = 0 /\ last.ran) =>
    /\ styleCount = << >>
    /\ classTags = << >>
    /\ last.sched = 0
    /\ timers = << >>
    /\ instances[last.inst] = given[last.inst]

\* A resize event has recomputed a page without wrappers.
C16_Witness ==
  /\ nWrappers = 0
  /\ last.op = "resize"
  /\ last.ran
  /\ calls >= 2

\* C17: once every pending correction has fired after the last resize event,
\* each wrapper's count is the count that last recomputation computed or that
\* count minus one; a correction of an earlier event leaves no count derived
\* from the earlier event's width.
\* Only calls made by the constructor and by resize events are considered:
\* the latest recomputation is a resize event's, and no correction scheduled
\* by a call of the page itself has written a wrapper since.
C17_FinalCountFromLastEvent ==
  (/\ last.op = "fire"
   /\ timers = << >>
   /\ latest.op = "resize"
   /\ \A w \in Wrappers : \A k \in 1..Len(corrections[w]) :
         corrections[w][k] \in {"construct", "resize"})
    => \A w \in Wrappers : styleCount[w] \in {written[w], written[w] - 1}

\* C18: when a correction fires and the space after the last item or the
\* space after the start of the last column is smaller than the last item's
\* width, it leaves the wrapper's count and class tag unchanged.
C18_ShortSpaceLeavesCountAndTag ==
  (last.op = "fire" /\ last.short)
    => (styleCount = last.before /\ classTags = last.tagsBefore)

\* A correction has measured a space smaller than the last item's width on a
\* wrapper with a count and a class tag.
C18_Witness ==
  /\ last.op = "fire"
  /\ last.short
  /\ styleCount[last.w] > 0
  /\ classTags[last.w] # << >>

\* C19: there is one window-level resize handler: it belongs to the most
\* recently constructed instance, and every resize event recomputes with
\* that instance's configuration, never with an earlier instance's.
C19_LatestInstanceHandlesResize ==
  /\ instances # << >> => onresize = Len(instances)
  /\ last.op = "resize" =>
       /\ last.inst = Len(instances)
       /\ last.param = given[Len(instances)].maxColumnNum

\* A resize event after the construction of a second instance whose
\* maxColumnNum differs from the first's.
C19_Witness ==
  /\ Len(instances) = 2
  /\ last.op = "resize"
  /\ given[1].maxColumnNum # given[2].maxColumnNum

Next ==
  \/ \E opts \in OptionChoices : Construct(opts)
  \/ \E widths \in {l \in Layouts : Len(l) = nWrappers} : Resize(widths)
  \/ \E i \in 1..Len(instances), m \in DirectArguments : DirectCall(i, m)
  \/ Tick
  \/ \E l \in Lefts, c \in Lefts, iw \in ItemWidths : Fire(l, c, iw)

Spec == Init /\ [][Next]_vars

\* The page constructs its Sposit with options that may be malformed.
NextMalformed ==
  \/ \E opts \in MalformedOptionChoices : Construct(opts)
  \/ \E widths \in {l \in Layouts : Len(l) = nWrappers} : Resize(widths)
  \/ \E i \in 1..Len(instances), m \in DirectArguments : DirectCall(i, m)
  \/ Tick
  \/ \E l \in Lefts, c \in Lefts, iw \in ItemWidths : Fire(l, c, iw)

SpecMalformed == Init /\ [][NextMalformed]_vars

\* The page constructs two Sposits, one after the other.
NextPaired ==
  \/ \E opts \in PairedOptionChoices : Construct(opts)
  \/ \E opts \in PairedOptionChoices : ConstructSecond(opts)
  \/ \E widths \in {l \in Layouts : Len(l) = nWrappers} : Resize(widths)
  \/ \E i \in 1..Len(instances), m \in DirectArguments : DirectCall(i, m)
  \/ Tick
  \/ \E l \in Lefts, c \in Lefts, iw \in ItemWidths : Fire(l, c, iw)

SpecPaired == Init /\ [][NextPaired]_vars
====
